---- MODULE Spec2Model ----
(***************************************************************************)
(* A model of generate_tool_pages.py: the extractor (extract_tool_info),   *)
(* the renderer (generate_tool_page) and the driver (main).                *)
(*                                                                         *)
(* Text is a sequence of lexemes.  In a script's content the lexemes are   *)
(* the labels the regular expressions look for ("Description:", "Usage:",  *)
(* "Parameters:", "Input", "Last modified"), the white space characters   *)
(* ("\n", " "), an undecodable byte ("\xff") and opaque runs of other      *)
(* text.  A file name or tool name is a sequence of single characters.     *)
(***************************************************************************)
EXTENDS Integers, Sequences, FiniteSets, TLC

VARIABLES
    pc,             \* position of the running entry point
    bbtools_dir,    \* the files of BBTOOLS_DIR: base name -> file
    shell_scripts,  \* main: the scripts glob returned that are not yet processed
    generated,      \* main: counter of pages written
    skipped,        \* main: counter of scripts skipped
    tools_dir,      \* the files of TOOLS_DIR: path -> page text
    log,            \* history: what main did with each script, in order
    summary,        \* main: the summary it printed (<<>> before)
    sidecar,        \* the state of WEBSITE_DIR/data/version.json
    content,        \* extractor run: the file handed to extract_tool_info
    info,           \* extractor run: what extract_tool_info returned
    r_args,         \* renderer run: the arguments of generate_tool_page
    calls           \* renderer run: history of the calls made, in order

vars == <<pc, bbtools_dir, shell_scripts, generated, skipped, tools_dir, log, summary,
          sidecar, content, info, r_args, calls>>

(***************************************************************************)
(* Bounds of the model.                                                    *)
(***************************************************************************)
MaxContentLen == 6
MaxNameLen == 3
MaxCalls == 2
MaxScripts == 2

(***************************************************************************)
(* Sequence helpers.                                                       *)
(***************************************************************************)
Min(S) == CHOOSE x \in S : \A y \in S : x <= y
Max(S) == CHOOSE x \in S : \A y \in S : x >= y

SeqsUpTo(S, n) == UNION {[1..k -> S] : k \in 0..n}

\* lit occurs in s at position i
MatchAt(s, i, lit) ==
    /\ i >= 1
    /\ i + Len(lit) - 1 <= Len(s)
    /\ \A k \in 1..Len(lit) : s[i + k - 1] = lit[k]

StartsWith(s, prefix) == MatchAt(s, 1, prefix)
EndsWith(s, suffix) == MatchAt(s, Len(s) - Len(suffix) + 1, suffix)

\* str.replace(old, new): left to right, non-overlapping
RECURSIVE Replace(_, _, _)
Replace(s, old, new) ==
    IF s = <<>> THEN <<>>
    ELSE IF MatchAt(s, 1, old)
         THEN new \o Replace(SubSeq(s, Len(old) + 1, Len(s)), old, new)
         ELSE <<Head(s)>> \o Replace(Tail(s), old, new)

\* s[:n]
Prefix(s, n) == SubSeq(s, 1, IF Len(s) < n THEN Len(s) ELSE n)

\* Python truthiness of a str (None is modelled apart, see extract_tool_info)
Truthy(s) == s # <<>>

(***************************************************************************)
(* The regular expressions of extract_tool_info.                           *)
(***************************************************************************)
NL == "\n"
IsSpace(t) == t \in {NL, " ", "\t"}

\* (?=a|b|c) at position i
Lookahead(s, i, alts) == \E a \in alts : MatchAt(s, i, a)

\* the longest run of white space starting at i: what a greedy \s* takes first
SpaceRun(s, i) ==
    Max({k \in 0..(Len(s) + 1 - i) : \A j \in i..(i + k - 1) : IsSpace(s[j])})

\* (.*?)(?=alts) started at j with re.DOTALL: the first position q >= j where
\* the lookahead holds; 0 when there is none
LazyEnd(s, j, alts) ==
    LET C == {q \in j..Len(s) : Lookahead(s, q, alts)}
    IN  IF C = {} THEN 0 ELSE Min(C)

NoMatch == [found |-> FALSE, group |-> <<>>]

\* label\s*(.*?)(?=alts) anchored with the label at i: \s* is greedy and gives
\* back one character at a time until the rest matches
MatchLabelAt(s, i, alts) ==
    LET K == {k \in 0..SpaceRun(s, i + 1) : LazyEnd(s, i + 1 + k, alts) # 0}
    IN  IF K = {} THEN NoMatch
        ELSE LET j == i + 1 + Max(K)
             IN  [found |-> TRUE, group |-> SubSeq(s, j, LazyEnd(s, j, alts) - 1)]

\* re.search(r'label\s*(.*?)(?=alts)', s, re.DOTALL): the leftmost match
SearchBlock(s, label, alts) ==
    LET I == {i \in 1..Len(s) : s[i] = label /\ MatchLabelAt(s, i, alts).found}
    IN  IF I = {} THEN NoMatch ELSE MatchLabelAt(s, Min(I), alts)

\* re.search(r'phrase(.*)', s): the leftmost phrase; '.' stops at a newline
SearchLine(s, phrase) ==
    LET I == {i \in 1..Len(s) : MatchAt(s, i, phrase)}
    IN  IF I = {} THEN NoMatch
        ELSE LET j == Min(I) + Len(phrase)
                 E == {q \in j..Len(s) : s[q] = NL}
                 e == IF E = {} THEN Len(s) + 1 ELSE Min(E)
             IN  [found |-> TRUE, group |-> SubSeq(s, j, e - 1)]

\* str.strip()
Strip(s) ==
    LET N == {i \in 1..Len(s) : ~IsSpace(s[i])}
    IN  IF N = {} THEN <<>> ELSE SubSeq(s, Min(N), Max(N))

\* str.replace('\n', ' ')
ReplaceNewlines(s) == [i \in 1..Len(s) |-> IF s[i] = NL THEN " " ELSE s[i]]

DescriptionLookahead == {<<NL, NL, "Usage:">>, <<"Parameters:">>, <<"Usage:">>}
UsageLookahead == {<<NL, NL>>, <<NL, "Parameters:">>, <<NL, "Input">>}

(***************************************************************************)
(* Reading a script: open(path, 'r', encoding='utf-8', errors='ignore').   *)
(* A file is [readable, bytes]; open or read fails on a file that is not   *)
(* readable; bytes that do not decode are dropped.                         *)
(***************************************************************************)
BadByte == "\\xff"

Decode(bytes) == SelectSeq(bytes, LAMBDA t : t # BadByte)

\* a variant whose except branch goes on with empty content
ReadFileEmptyOnError(file) ==
    IF file.readable
    THEN [ok |-> TRUE, text |-> Decode(file.bytes)]
    ELSE [ok |-> TRUE, text |-> <<>>]

\* lines 19-23
ReadFile(file) ==
    IF file.readable
    THEN [ok |-> TRUE, text |-> Decode(file.bytes)]
    ELSE [ok |-> FALSE, text |-> <<>>]

NoneInfo == [none |-> TRUE, description |-> <<>>, usage |-> <<>>,
             last_modified |-> <<>>]

\* a variant that forgets .strip()
ExtractDescriptionNoStrip(text) ==
    LET desc_match == SearchBlock(text, "Description:", DescriptionLookahead)
        description == IF desc_match.found THEN desc_match.group ELSE <<>>
    IN  ReplaceNewlines(description)

\* lines 26-28
ExtractDescription(text) ==
    LET desc_match == SearchBlock(text, "Description:", DescriptionLookahead)
        description == IF desc_match.found THEN Strip(desc_match.group) ELSE <<>>
    IN  ReplaceNewlines(description)

ExtractUsage(text) ==
    LET usage_match == SearchBlock(text, "Usage:", UsageLookahead)
    IN  IF usage_match.found THEN Strip(usage_match.group) ELSE <<>>

ExtractLastModified(text) ==
    LET modified_match == SearchLine(text, <<"Last modified", " ">>)
    IN  IF modified_match.found THEN modified_match.group ELSE <<>>

\* (description, usage, last_modified); none = TRUE stands for (None, None, None)
extract_tool_info(file) ==
    LET r == ReadFile(file)
    IN  IF ~r.ok THEN NoneInfo
        ELSE [none |-> FALSE,
              description |-> ExtractDescription(r.text),
              usage |-> ExtractUsage(r.text),
              last_modified |-> ExtractLastModified(r.text)]

(***************************************************************************)
(* Extractor run: one call of extract_tool_info on a readable file.        *)
(***************************************************************************)
ContentTokens == {"Description:", "Usage:", "Parameters:", "Input", NL, "w"}

Idle == [none |-> TRUE]

ExtractInit ==
    /\ pc = "extract"
    /\ content \in {[readable |-> TRUE, bytes |-> b] :
                        b \in SeqsUpTo(ContentTokens, MaxContentLen)}
    /\ info = NoneInfo
    /\ bbtools_dir = <<>> /\ shell_scripts = <<>> /\ generated = 0 /\ skipped = 0
    /\ tools_dir = <<>> /\ log = <<>> /\ summary = <<>>
    /\ sidecar = Idle /\ r_args = Idle /\ calls = <<>>

Extract ==
    /\ pc = "extract"
    /\ info' = extract_tool_info(content)
    /\ pc' = "extracted"
    /\ UNCHANGED <<bbtools_dir, shell_scripts, generated, skipped, tools_dir, log, summary,
                   sidecar, content, r_args, calls>>

ExtractNext == Extract

ExtractSpec == ExtractInit /\ [][ExtractNext]_vars

(***************************************************************************)
(* Characters: str.upper(), str.title().                                   *)
(***************************************************************************)
LowerChars == <<"a", "b", "c", "d", "e", "f", "g", "h", "i", "j", "k", "l", "m",
                "n", "o", "p", "q", "r", "s", "t", "u", "v", "w", "x", "y", "z">>
UpperChars == <<"A", "B", "C", "D", "E", "F", "G", "H", "I", "J", "K", "L", "M",
                "N", "O", "P", "Q", "R", "S", "T", "U", "V", "W", "X", "Y", "Z">>

IndexIn(c, chars) ==
    IF \E i \in 1..Len(chars) : chars[i] = c
    THEN CHOOSE i \in 1..Len(chars) : chars[i] = c
    ELSE 0

IsLower(c) == IndexIn(c, LowerChars) # 0
IsUpper(c) == IndexIn(c, UpperChars) # 0
IsCased(c) == IsLower(c) \/ IsUpper(c)
UpperChar(c) == IF IsLower(c) THEN UpperChars[IndexIn(c, LowerChars)] ELSE c
LowerChar(c) == IF IsUpper(c) THEN LowerChars[IndexIn(c, UpperChars)] ELSE c

\* str.upper()
Upper(s) == [i \in 1..Len(s) |-> UpperChar(s[i])]

\* str.title(): a cased character is lowered after a cased one, raised otherwise
Title(s) ==
    [i \in 1..Len(s) |->
        IF i > 1 /\ IsCased(s[i - 1]) THEN LowerChar(s[i]) ELSE UpperChar(s[i])]

(***************************************************************************)
(* generate_tool_page.                                                     *)
(***************************************************************************)
DefaultVersion == <<"39.34">>
MetaLen == 155

\* The states of version.json: absent; present but not openable; present with
\* text that is no JSON; JSON that is no object; an object without "version";
\* an object with "version".
Versions == {<<"39.35">>, <<"40.01">>}

SidecarFile(exists, readable, json, version) ==
    [exists |-> exists, readable |-> readable, json |-> json, version |-> version]

SidecarStates ==
    {SidecarFile(FALSE, FALSE, "none", <<>>),
     SidecarFile(TRUE, FALSE, "none", <<>>),
     SidecarFile(TRUE, TRUE, "malformed", <<>>),
     SidecarFile(TRUE, TRUE, "array", <<>>),
     SidecarFile(TRUE, TRUE, "object_without_version", <<>>)}
    \cup {SidecarFile(TRUE, TRUE, "object", v) : v \in Versions}

\* a variant with data.get outside the try block: JSON that is no object
\* raises AttributeError out of the function
LoadVersionGetOutsideTry(sc) ==
    IF ~sc.exists THEN [raised |-> FALSE, version |-> DefaultVersion]
    ELSE IF ~sc.readable \/ sc.json = "malformed"
         THEN [raised |-> FALSE, version |-> DefaultVersion]
         ELSE IF sc.json = "array"
              THEN [raised |-> TRUE, version |-> DefaultVersion]
              ELSE IF sc.json = "object"
                   THEN [raised |-> FALSE, version |-> sc.version]
                   ELSE [raised |-> FALSE, version |-> DefaultVersion]

\* lines 53-62: raised = TRUE would be an exception leaving the block
LoadVersion(sc) ==
    IF ~sc.exists THEN [raised |-> FALSE, version |-> DefaultVersion]
    ELSE IF ~sc.readable \/ sc.json \in {"malformed", "array"}
         THEN [raised |-> FALSE, version |-> DefaultVersion]   \* except: pass
         ELSE IF sc.json = "object"
              THEN [raised |-> FALSE, version |-> sc.version]
              ELSE [raised |-> FALSE, version |-> DefaultVersion]

\* a variant that forgets .replace('_', ' ')
display_name_keeps_underscores(tool_name) ==
    LET upper == Upper(tool_name)
    IN  IF StartsWith(upper, <<"B", "B">>)
        THEN <<"B", "B">> \o Title(SubSeq(upper, 3, Len(upper)))
        ELSE upper

\* lines 48-50
display_name(tool_name) ==
    LET upper == Replace(Upper(tool_name), <<"_">>, <<" ">>)
    IN  IF StartsWith(upper, <<"B", "B">>)
        THEN <<"B", "B">> \o Title(SubSeq(upper, 3, Len(upper)))
        ELSE upper

\* The page, one field per interpolation of the template (lines 64-166); the
\* fixed text between them is the same in every page.  v is what lines 53-62
\* left in version.
Template(tool_name, description, usage, last_modified, v) ==
    LET dn == display_name(tool_name)
    IN  [raised |-> v.raised,
         title |-> dn \o <<" - BBTools">>,
         meta |-> IF Truthy(description) THEN Prefix(description, MetaLen)
                  ELSE dn \o <<" - BBTools bioinformatics tool">>,
         source_link |-> <<"https://github.com/bbushnell/BBTools/blob/master/">>
                         \o tool_name \o <<".sh">>,
         h1 |-> dn,
         header_p |-> IF Truthy(description) THEN description
                      ELSE <<"A tool in the BBTools suite">>,
         usage_box |-> IF Truthy(usage) THEN usage
                       ELSE tool_name \o <<".sh [parameters]">>,
         about_p |-> IF Truthy(description) THEN description
                     ELSE dn \o <<" is part of the BBTools suite of bioinformatics tools.">>,
         last_updated |-> IF Truthy(last_modified) THEN last_modified
                          ELSE <<"See source">>,
         version |-> <<"BBTools v">> \o v.version,
         example_box |-> tool_name \o <<".sh">>]

\* a variant whose "Last Updated" fallback is a reading of the clock, here the
\* number of calls made so far
generate_tool_page_clock(tool_name, description, usage, last_modified) ==
    [Template(tool_name, description, usage, last_modified, LoadVersion(sidecar))
        EXCEPT !.last_updated = IF Truthy(last_modified) THEN last_modified
                                ELSE <<"generated at", Len(calls)>>]

generate_tool_page(tool_name, description, usage, last_modified) ==
    Template(tool_name, description, usage, last_modified, LoadVersion(sidecar))

(***************************************************************************)
(* Renderer runs: calls of generate_tool_page with the same arguments      *)
(* while the environment rewrites version.json (RenderSpec), and one call  *)
(* for each tool name (NameSpec).                                          *)
(***************************************************************************)
bbduk == <<"b", "b", "d", "u", "k">>
reformat == <<"r", "e", "f", "o", "r", "m", "a", "t">>
bbmap_pacbio == <<"b", "b", "m", "a", "p", "_", "p", "a", "c", "b", "i", "o">>

NameChars == {"b", "B", "x", "_", "2"}
Texts == {<<>>, <<"w">>}

Args(names) ==
    [tool_name : names, description : Texts, usage : Texts, last_modified : Texts]

RenderIdle ==
    /\ bbtools_dir = <<>> /\ shell_scripts = <<>> /\ generated = 0 /\ skipped = 0
    /\ tools_dir = <<>> /\ log = <<>> /\ summary = <<>>
    /\ content = Idle /\ info = NoneInfo

RenderInit ==
    /\ pc = "render"
    /\ r_args \in Args({bbduk, reformat, bbmap_pacbio})
    /\ sidecar \in SidecarStates
    /\ calls = <<>>
    /\ RenderIdle

NameInit ==
    /\ pc = "render"
    /\ r_args \in Args(SeqsUpTo(NameChars, MaxNameLen) \cup {bbduk, reformat, bbmap_pacbio})
    /\ sidecar = SidecarFile(FALSE, FALSE, "none", <<>>)
    /\ calls = <<>>
    /\ RenderIdle

Render ==
    /\ pc = "render"
    /\ Len(calls) < MaxCalls
    /\ calls' = Append(calls,
            [args |-> r_args, sidecar |-> sidecar,
             page |-> generate_tool_page(r_args.tool_name, r_args.description,
                                         r_args.usage, r_args.last_modified)])
    /\ UNCHANGED <<pc, bbtools_dir, shell_scripts, generated, skipped, tools_dir, log, summary,
                   sidecar, content, info, r_args>>

\* the environment replaces, removes or damages version.json
SidecarChange ==
    /\ pc = "render"
    /\ sidecar' \in SidecarStates \ {sidecar}
    /\ UNCHANGED <<pc, bbtools_dir, shell_scripts, generated, skipped, tools_dir, log, summary,
                   content, info, r_args, calls>>

RenderNext == Render \/ SidecarChange
RenderSpec == RenderInit /\ [][RenderNext]_vars

NameNext == Render
NameSpec == NameInit /\ [][NameNext]_vars

(***************************************************************************)
(* main.                                                                   *)
(***************************************************************************)
DotSh == <<".", "s", "h">>
DotHtml == <<".", "h", "t", "m", "l">>

calcmem == <<"c", "a", "l", "c", "m", "e", "m">>
javasetup == <<"j", "a", "v", "a", "s", "e", "t", "u", "p">>
memdetect == <<"m", "e", "m", "d", "e", "t", "e", "c", "t">>
Xcalcmem == <<"X">> \o calcmem

\* a variant that lost the last name of the list
SkipListShort == {calcmem, javasetup, memdetect}

\* line 191
SkipList == {calcmem, javasetup, memdetect, Xcalcmem}

\* line 188: os.path.basename(script_path).replace('.sh', '')
ToolName(script_name) == Replace(script_name, DotSh, <<>>)

\* line 199
OutputFile(tool_name) == tool_name \o DotHtml

\* a variant that tests "is not None" where the code tests truth
HasInfoNotNone(i) == ~i.none

\* line 197: description or usage, on (None, None, None) as on strings
HasInfo(i) == ~i.none /\ (Truthy(i.description) \/ Truthy(i.usage))

\* glob.glob(os.path.join(BBTOOLS_DIR, "*.sh")): the names that end in ".sh"
\* and do not start with a dot
Glob(dir) == {n \in DOMAIN dir : EndsWith(n, DotSh) /\ n[1] # "."}

\* the orders in which glob may list a set of names
Orders(S) ==
    {q \in [1..Cardinality(S) -> S] :
        \A i, j \in 1..Cardinality(S) : i # j => q[i] # q[j]}

(***************************************************************************)
(* The directories main is run on.                                         *)
(***************************************************************************)
File(readable, bytes) == [readable |-> readable, bytes |-> bytes]

Unreadable == File(FALSE, <<>>)
ScenarioFile ==
    File(TRUE, <<"Description:", NL, "Compresses reads.", NL, NL,
                 "Usage:", NL, "bbduk.sh in=reads.fq">>)
NoInfoFile == File(TRUE, <<"#!/bin/bash", NL, "Last modified", " ", "w", NL>>)
FullFile ==
    File(TRUE, <<"Description:", " ", "w", NL, "w", NL, NL, "Usage:", " ", "w",
                 NL, NL, "Input", NL>>)
UsageOnlyFile == File(TRUE, <<"Usage:", " ", "w", NL, "Parameters:", NL>>)
UndecodableFile ==
    File(TRUE, <<BadByte, "Description:", " ", "w", BadByte, NL, NL,
                 "Usage:", " ", "w", NL, NL>>)

Files == {Unreadable, ScenarioFile, NoInfoFile, FullFile, UsageOnlyFile,
          UndecodableFile}

FileNames ==
    {bbduk \o DotSh, bbduk \o DotSh \o DotSh, reformat \o DotSh,
     calcmem \o DotSh, javasetup \o DotSh, memdetect \o DotSh,
     Xcalcmem \o DotSh, bbduk \o <<".", "t", "x", "t">>}

\* main never opens a script of the skip list, nor a file glob does not list:
\* two states of such a file are enough
FilesOf(name) ==
    IF name \in {calcmem \o DotSh, javasetup \o DotSh, memdetect \o DotSh,
                 Xcalcmem \o DotSh}
    THEN {Unreadable, FullFile}
    ELSE IF EndsWith(name, DotSh) THEN Files ELSE {FullFile}

Directories ==
    {d \in UNION {[S -> Files] :
                    S \in {T \in SUBSET FileNames : Cardinality(T) <= MaxScripts}} :
        \A n \in DOMAIN d : d[n] \in FilesOf(n)}

Init ==
    /\ pc = "start"
    /\ bbtools_dir \in Directories
    /\ sidecar \in {SidecarFile(FALSE, FALSE, "none", <<>>),
                    SidecarFile(TRUE, TRUE, "object", <<"39.35">>)}
    /\ shell_scripts = <<>>
    /\ generated = 0
    /\ skipped = 0
    /\ tools_dir = <<>>
    /\ log = <<>>
    /\ summary = <<>>
    /\ content = Idle /\ info = NoneInfo /\ r_args = Idle /\ calls = <<>>

\* lines 179-185: os.makedirs succeeds, glob lists the scripts
Start ==
    /\ pc = "start"
    /\ \E order \in Orders(Glob(bbtools_dir)) : shell_scripts' = order
    /\ generated' = 0
    /\ skipped' = 0
    /\ pc' = "loop"
    /\ UNCHANGED <<bbtools_dir, tools_dir, log, summary, sidecar, content, info,
                   r_args, calls>>

\* line 179: os.makedirs raises (no permission, a file in the way); nothing
\* catches it
MakedirsFails ==
    /\ pc = "start"
    /\ pc' = "crashed"
    /\ UNCHANGED <<bbtools_dir, shell_scripts, generated, skipped, tools_dir, log,
                   summary, sidecar, content, info, r_args, calls>>

Entry(script, tool_name, outcome, i, html, sk, gen, next) ==
    [script |-> script, file |-> bbtools_dir[script], tool_name |-> tool_name,
     outcome |-> outcome, info |-> i, page |-> html,
     skipped_before |-> skipped, skipped_after |-> sk,
     generated_before |-> generated, generated_after |-> gen, next |-> next]

NoPage == [raised |-> FALSE]

\* lines 187-208: one iteration of the loop.  write_ok is whether
\* open(output_file, 'w') and f.write succeed; nothing catches their failure.
Process ==
    /\ pc = "loop"
    /\ shell_scripts # <<>>
    /\ LET script_path == Head(shell_scripts)
           tool_name == ToolName(script_path)
       IN  IF tool_name \in SkipList
           THEN /\ skipped' = skipped + 1
                /\ log' = Append(log, Entry(script_path, tool_name, "excluded",
                                            NoneInfo, NoPage, skipped + 1,
                                            generated, "loop"))
                /\ UNCHANGED <<pc, generated, tools_dir>>
           ELSE \E i \in {extract_tool_info(bbtools_dir[script_path])} :
                    IF HasInfo(i)
                    THEN \E html \in {generate_tool_page(tool_name, i.description,
                                                        i.usage, i.last_modified)} :
                         LET output_file == OutputFile(tool_name)
                         IN  \E write_ok \in BOOLEAN :
                               IF ~html.raised /\ write_ok
                               THEN /\ tools_dir' =
                                         [p \in DOMAIN tools_dir \cup {output_file} |->
                                             IF p = output_file THEN html
                                             ELSE tools_dir[p]]
                                    /\ generated' = generated + 1
                                    /\ log' = Append(log,
                                         Entry(script_path, tool_name, "generated",
                                               i, html, skipped, generated + 1,
                                               "loop"))
                                    /\ UNCHANGED <<pc, skipped>>
                               ELSE /\ pc' = "crashed"
                                    /\ log' = Append(log,
                                         Entry(script_path, tool_name, "failed",
                                               i, NoPage, skipped, generated,
                                               "crashed"))
                                    /\ UNCHANGED <<generated, skipped, tools_dir>>
                    ELSE /\ skipped' = skipped + 1
                         /\ log' = Append(log, Entry(script_path, tool_name,
                                                     "no_info", i, NoPage,
                                                     skipped + 1, generated,
                                                     "loop"))
                         /\ UNCHANGED <<pc, generated, tools_dir>>
    /\ shell_scripts' = Tail(shell_scripts)
    /\ UNCHANGED <<bbtools_dir, summary, sidecar, content, info, r_args, calls>>

\* lines 210-214: the loop is over, the summary is printed
Finish ==
    /\ pc = "loop"
    /\ shell_scripts = <<>>
    /\ summary' = <<"Generated:", generated, "Skipped:", skipped>>
    /\ pc' = "done"
    /\ UNCHANGED <<bbtools_dir, shell_scripts, generated, skipped, tools_dir, log,
                   sidecar, content, info, r_args, calls>>

Next == Start \/ MakedirsFails \/ Process \/ Finish

Spec == Init /\ [][Next]_vars

(***************************************************************************)
(* Properties of main (under Spec).                                        *)
(***************************************************************************)
\* the counters move only in the loop, by what the entries of the log record
CountersFollowLog(k) ==
    /\ log[k].skipped_before = (IF k = 1 THEN 0 ELSE log[k - 1].skipped_after)
    /\ log[k].generated_before = (IF k = 1 THEN 0 ELSE log[k - 1].generated_after)
    /\ k = Len(log) => (skipped = log[k].skipped_after
                        /\ generated = log[k].generated_after)

OnExclusionList(tool_name) ==
    tool_name \in {<<"c", "a", "l", "c", "m", "e", "m">>,
                   <<"j", "a", "v", "a", "s", "e", "t", "u", "p">>,
                   <<"m", "e", "m", "d", "e", "t", "e", "c", "t">>,
                   <<"X", "c", "a", "l", "c", "m", "e", "m">>}

SkippedOnce(e) ==
    /\ e.page = NoPage
    /\ e.skipped_after = e.skipped_before + 1
    /\ e.generated_after = e.generated_before

\* C1: for a script that is not on the exclusion list, main writes an output
\* file only if the extracted Description or the extracted Usage is non-empty;
\* when both are empty it writes no file for the script, adds exactly one to
\* skipped and nothing to generated.  Every file of the output directory was
\* written for such a script.
C1_OutputOnlyWithInfo ==
    /\ \A k \in 1..Len(log) :
         LET e == log[k]
             empty == e.info.none
                      \/ (e.info.description = <<>> /\ e.info.usage = <<>>)
         IN  /\ CountersFollowLog(k)
             /\ ~OnExclusionList(e.tool_name) =>
                  /\ e.outcome = "generated" => ~empty
                  /\ empty => e.outcome = "no_info" /\ SkippedOnce(e)
    /\ \A p \in DOMAIN tools_dir :
         \E k \in 1..Len(log) :
            /\ log[k].outcome = "generated"
            /\ p = log[k].tool_name \o DotHtml
            /\ ~log[k].info.none
            /\ log[k].info.description # <<>> \/ log[k].info.usage # <<>>

\* C1 witness: a run that skipped a readable script with neither field and
\* wrote a page for a script with only a Usage
C1_Witness ==
    /\ pc = "done"
    /\ \E j, k \in 1..Len(log) :
         /\ log[j].file = NoInfoFile /\ log[j].outcome = "no_info"
         /\ ~OnExclusionList(log[j].tool_name)
         /\ log[k].file = UsageOnlyFile /\ log[k].outcome = "generated"
    /\ skipped = 1 /\ generated = 1

\* C2: a script whose tool name is calcmem, javasetup, memdetect or Xcalcmem
\* is skipped whatever its file holds: the extractor is not consulted, no
\* output file is written for it, and skipped grows by exactly one.
C2_ExclusionListSkipped ==
    \A k \in 1..Len(log) :
        LET e == log[k]
        IN  OnExclusionList(e.tool_name) =>
              /\ e.outcome = "excluded"
              /\ e.info = NoneInfo
              /\ SkippedOnce(e)
              /\ CountersFollowLog(k)
              /\ e.next = "loop"
              /\ (e.tool_name \o DotHtml) \notin DOMAIN tools_dir

\* C2 witness: Xcalcmem.sh, holding a Description and a Usage, was skipped
C2_Witness ==
    \E k \in 1..Len(log) :
        /\ log[k].script = <<"X", "c", "a", "l", "c", "m", "e", "m", ".", "s", "h">>
        /\ log[k].file = FullFile
        /\ log[k].outcome = "excluded"
        /\ skipped >= 1

\* C3 as stated: the page written for bbduk.sh holding
\* "Description:\nCompresses reads.\n\nUsage:\nbbduk.sh in=reads.fq" is
\* bbduk.html, its body has "Compresses reads." and its usage box has
\* "bbduk.sh in=reads.fq".
C3_ScenarioUsageBox ==
    \A k \in 1..Len(log) :
        LET e == log[k]
        IN  (/\ e.script = <<"b", "b", "d", "u", "k", ".", "s", "h">>
             /\ e.file = ScenarioFile
             /\ e.outcome = "generated") =>
              /\ e.tool_name \o DotHtml = <<"b", "b", "d", "u", "k", ".", "h", "t", "m", "l">>
              /\ e.page.about_p = <<"Compresses reads.">>
              /\ e.page.usage_box = <<"bbduk.sh in=reads.fq">>

\* C4 as stated: no error is fatal; a run of main ends with every listed
\* script processed and the summary printed with both counters.
C4_NoErrorIsFatal ==
    pc \in {"done", "crashed"} =>
        /\ Len(log) = Cardinality(Glob(bbtools_dir))
        /\ summary = <<"Generated:", generated, "Skipped:", skipped>>

CannotBeOpened(file) == ~file.readable
HasUndecodableBytes(file) == \E j \in 1..Len(file.bytes) : file.bytes[j] = BadByte

UnreadableOutcome(e) ==
    /\ e.info.none
    /\ e.outcome = "no_info"
    /\ SkippedOnce(e)
    /\ e.next = "loop"

C10_OneToOne ==
    /\ \A j, k \in 1..Len(log) :
         (j # k /\ log[j].outcome = "generated" /\ log[k].outcome = "generated")
            => log[j].tool_name \o DotHtml # log[k].tool_name \o DotHtml
    /\ pc = "done" => Cardinality(DOMAIN tools_dir) = generated

(***************************************************************************)
(* Properties of extract_tool_info (under ExtractSpec).                    *)
(***************************************************************************)
\* a terminator of the Description block starts at p: a blank line followed
\* by "Usage:", or "Parameters:", or "Usage:"
DescriptionEndsAt(s, p) ==
    \/ s[p] \in {"Parameters:", "Usage:"}
    \/ p + 2 <= Len(s) /\ s[p] = "\n" /\ s[p + 1] = "\n" /\ s[p + 2] = "Usage:"

\* the text X between the first "Description:" and the first terminator after
\* it, without its leading and trailing white space
DescriptionBlock(s) ==
    LET L == {i \in 1..Len(s) : s[i] = "Description:"}
        T == {p \in 1..Len(s) : L # {} /\ p > Min(L) /\ DescriptionEndsAt(s, p)}
        X == SubSeq(s, Min(L) + 1, Min(T) - 1)
        N == {i \in 1..Len(X) : X[i] \notin {"\n", " ", "\t"}}
    IN  [labelled |-> L # {},
         terminated |-> T # {},
         x |-> IF L = {} \/ T = {} \/ N = {} THEN <<>>
               ELSE SubSeq(X, Min(N), Max(N))]

\* every run of newlines becomes one space
RECURSIVE CollapseNewlineRuns(_)
CollapseNewlineRuns(t) ==
    IF t = <<>> THEN <<>>
    ELSE IF Head(t) = "\n" /\ Len(t) > 1 /\ t[2] = "\n"
         THEN CollapseNewlineRuns(Tail(t))
         ELSE <<IF Head(t) = "\n" THEN " " ELSE Head(t)>>
              \o CollapseNewlineRuns(Tail(t))

NoOuterSpace(d) ==
    d # <<>> => (d[1] \notin {"\n", " ", "\t"} /\ d[Len(d)] \notin {"\n", " ", "\t"})

\* C7 as stated: with a "Description:" label, text X and a terminator, the
\* Description is X with every run of internal newlines collapsed to a single
\* space and no leading or trailing white space; without the label it is
\* empty.
C7_NewlineRunsCollapsed ==
    pc = "extracted" =>
        LET b == DescriptionBlock(content.bytes)
        IN  /\ ~b.labelled => info.description = <<>>
            /\ (b.labelled /\ b.terminated) =>
                 /\ info.description = CollapseNewlineRuns(b.x)
                 /\ NoOuterSpace(info.description)

\* C7 amended: with a "Description:" label, text X and a terminator, the
\* Description is X without its leading and trailing white space and with
\* every internal newline replaced by one space (a run of k newlines gives k
\* spaces); without the label it is empty.
C7_EachNewlineReplaced ==
    pc = "extracted" =>
        LET b == DescriptionBlock(content.bytes)
            d == info.description
        IN  /\ ~b.labelled => d = <<>>
            /\ (b.labelled /\ b.terminated) =>
                 /\ Len(d) = Len(b.x)
                 /\ \A k \in 1..Len(d) :
                      d[k] = (IF b.x[k] = "\n" THEN " " ELSE b.x[k])
                 /\ NoOuterSpace(d)

\* C7 witness: a Description of two lines with a blank line between them
C7_Witness ==
    /\ pc = "extracted"
    /\ content.bytes = <<"Description:", "w", "\n", "\n", "w", "Usage:">>
    /\ info.description = <<"w", " ", " ", "w">>

(***************************************************************************)
(* Properties of generate_tool_page (under RenderSpec and NameSpec).       *)
(***************************************************************************)
\* C5 as stated: two calls with identical arguments yield identical output,
\* also when version.json changes between them.
C5_PureFunction ==
    \A j, k \in 1..Len(calls) :
        calls[j].args = calls[k].args => calls[j].page = calls[k].page

\* C5 amended: the output is a function of the arguments and of version.json
\* as it is when the call is made: two calls with identical arguments agree in
\* every field but the Version line, and agree there too when the file is in
\* the same state at both calls.
C5_SameArgumentsSameFile ==
    \A j, k \in 1..Len(calls) :
        calls[j].args = calls[k].args =>
            /\ [calls[j].page EXCEPT !.version = <<>>]
                 = [calls[k].page EXCEPT !.version = <<>>]
            /\ calls[j].sidecar = calls[k].sidecar => calls[j].page = calls[k].page

\* C5 witness: two calls with the same arguments whose pages differ in the
\* Version line only
C5_Witness ==
    /\ Len(calls) = 2
    /\ calls[1].args = calls[2].args
    /\ calls[1].page.version = <<"BBTools v", "39.34">>
    /\ calls[2].page.version = <<"BBTools v", "40.01">>

\* C8: the Version line shows the "version" value of version.json when the
\* file is present, readable, well-formed JSON and an object with that field;
\* in every other case it shows 39.34; no error leaves generate_tool_page.
C8_VersionFallback ==
    \A k \in 1..Len(calls) :
        LET sc == calls[k].sidecar
        IN  /\ ~calls[k].page.raised
            /\ calls[k].page.version =
                 <<"BBTools v">> \o
                 (IF sc.exists /\ sc.readable /\ sc.json = "object"
                  THEN sc.version ELSE <<"39.34">>)

\* C8 witness: one call with JSON that is no object, one with a version field
C8_Witness ==
    /\ Len(calls) = 2
    /\ calls[1].sidecar.json = "array"
    /\ calls[1].page.version = <<"BBTools v", "39.34">>
    /\ calls[2].sidecar.json = "object"
    /\ calls[2].page.version = <<"BBTools v", "39.35">>

\* D is the display name of n by the stated rule: n in upper case with
\* underscores replaced by spaces and, when n begins with "bb" in any letter
\* case, "BB" followed by the rest in title case
IsDisplayNameOf(D, n) ==
    LET u == [i \in 1..Len(n) |-> IF n[i] = "_" THEN " " ELSE UpperChar(n[i])]
        bb == Len(n) >= 2 /\ n[1] \in {"b", "B"} /\ n[2] \in {"b", "B"}
    IN  /\ Len(D) = Len(n)
        /\ \A i \in 1..Len(n) :
             D[i] = (IF bb /\ i > 3 /\ IsCased(u[i - 1]) THEN LowerChar(u[i])
                     ELSE u[i])

TitleOf(c) == SubSeq(c.page.title, 1, Len(c.page.title) - 1)

TitleByRule(c) ==
    /\ c.page.title = TitleOf(c) \o <<" - BBTools">>
    /\ IsDisplayNameOf(TitleOf(c), c.args.tool_name)
    /\ c.args.tool_name = <<"b", "b", "d", "u", "k">>
         => TitleOf(c) = <<"B", "B", "D", "u", "k">>

\* C6 as stated: the page has <title>D - BBTools</title> with D by the rule;
\* bbduk gives BBDuk and reformat gives Reformat.
C6_TitleReformatCapitalized ==
    \A k \in 1..Len(calls) :
        /\ TitleByRule(calls[k])
        /\ calls[k].args.tool_name = <<"r", "e", "f", "o", "r", "m", "a", "t">>
             => TitleOf(calls[k]) = <<"R", "e", "f", "o", "r", "m", "a", "t">>

\* C6 amended: the page has <title>D - BBTools</title> with D by the rule;
\* bbduk gives BBDuk and reformat, which does not begin with "bb", gives
\* REFORMAT.
C6_TitleByRule ==
    \A k \in 1..Len(calls) :
        /\ TitleByRule(calls[k])
        /\ calls[k].args.tool_name = <<"r", "e", "f", "o", "r", "m", "a", "t">>
             => TitleOf(calls[k]) = <<"R", "E", "F", "O", "R", "M", "A", "T">>

\* C6 witness: the page generated for reformat
C6_Witness ==
    /\ Len(calls) >= 1
    /\ calls[1].args.tool_name = <<"r", "e", "f", "o", "r", "m", "a", "t">>
    /\ calls[1].page.title = <<"R", "E", "F", "O", "R", "M", "A", "T", " - BBTools">>

====
